---- MODULE Spec2Model ----
(***************************************************************************)
(* State-machine model of the two view controllers of reading-notes-front: *)
(* ReadingRecordsPage (the Records Controller: paging / search state, the  *)
(* list-fetch effect with its staleness flag, the candidate-selection      *)
(* modal, link and unlink) and BookCarousel (the Shelf Controller: one     *)
(* fetch of the summary book list per mount).                              *)
(*                                                                         *)
(* One action is one turn of the browser event loop: an event handler or   *)
(* the continuation of an awaited call, followed by the re-render and the  *)
(* effects that the state change schedules (React batches the updates of   *)
(* one turn into one render).                                              *)
(***************************************************************************)
EXTENDS Integers, Sequences, FiniteSets, TLC

\* ---------------------------------------------------------------- bounds
MaxPage == 1          \* pages the pagination widget can ask for: 0..MaxPage
MaxPending == 2       \* asynchronous backend calls outstanding at one time
NumRecords == 7       \* reading records held by the backend
MaxShelf == 2         \* summary books in one fetchMySummaryBooks response
MaxMounts == 2        \* times BookCarousel is mounted

\* ------------------------------------------------------- program constants
MobileSize == 6
DesktopSize == 10

Null == "null"                 \* JS null / undefined for string-valued fields
NullId == 0                    \* selectedRecordId === null
NoData == <<>>                 \* data === null; loaded data is <<pageResult>>
ErrorMessage == "load failed"  \* the inline error text set by the list effect

\* ---------------------------------------------------------- input domains
Chars == {"a", " "}
Inputs == {<<>>, <<" ", "a", " ">>}
Books == {"b1", "b2"}
ModalKeywords == {"", "emma"}
SortKeys == {"title", "author"}
PageSizeOptions == {MobileSize, DesktopSize}
ShelfBooks == {"s1", "s2", "s3"}

VARIABLES
    phase,              \* "init" (rendered, effects not yet run), "mounted", "unmounted"
    viewportNarrow,     \* window.matchMedia("(max-width: 768px)").matches
    data, page, size, q, queryInput, loading, error,
    modalOpen, candidates, candidatesLoading, selectedRecordId,
    modalKeyword, modalSortKey,
    fetches,            \* fetchMyRecords calls in flight, in order of initiation
    linkCalls,          \* linkRecord calls in flight (handleSelectCandidate suspended)
    unlinkCalls,        \* fetchRemoveMatch calls in flight (handleRemoveMatch suspended)
    candCalls,          \* fetchCandidates calls in flight
    links,              \* backend: record id -> linked book id or Null
    lastFetched,        \* history: the PageResult most recently applied by setData
    unlinkedSince,      \* history: ids patched by handleRemoveMatch since then
    lastEvent,          \* history: what the last turn of the event loop did
    shelfPhase,         \* BookCarousel: "init", "mounted", "unmounted"
    shelfMounts,        \* BookCarousel: how many times it has been mounted
    list, shelfLoading, shelfError,   \* BookCarousel: list, loading, error
    shelfCalls,         \* fetchMySummaryBooks calls in flight: the mount that issued each
    shelfEvent          \* history: what the last turn did to BookCarousel

vars == <<phase, viewportNarrow, data, page, size, q, queryInput, loading, error,
          modalOpen, candidates, candidatesLoading, selectedRecordId,
          modalKeyword, modalSortKey, fetches, linkCalls, unlinkCalls, candCalls,
          links, lastFetched, unlinkedSince, lastEvent,
          shelfPhase, shelfMounts, list, shelfLoading, shelfError, shelfCalls,
          shelfEvent>>

pagingVars == <<page, size, q>>
modalVars == <<modalOpen, candidates, candidatesLoading, selectedRecordId,
               modalKeyword, modalSortKey>>
historyVars == <<lastFetched, unlinkedSince>>
recordsVars == <<phase, viewportNarrow, data, page, size, q, queryInput, loading, error,
                 modalOpen, candidates, candidatesLoading, selectedRecordId,
                 modalKeyword, modalSortKey, fetches, linkCalls, unlinkCalls, candCalls,
                 links, lastFetched, unlinkedSince, lastEvent>>
shelfVars == <<shelfPhase, shelfMounts, list, shelfLoading, shelfError, shelfCalls,
               shelfEvent>>

\* ------------------------------------------------------------- utilities
Min(a, b) == IF a < b THEN a ELSE b
Max(a, b) == IF a > b THEN a ELSE b
Remove(s, i) == SubSeq(s, 1, i - 1) \o SubSeq(s, i + 1, Len(s))
Range(s) == {s[i] : i \in DOMAIN s}

\* String.prototype.trim on a sequence of characters
RECURSIVE TrimLeft(_)
TrimLeft(s) == IF s # <<>> /\ Head(s) = " " THEN TrimLeft(Tail(s)) ELSE s
RECURSIVE TrimRight(_)
TrimRight(s) ==
    IF s # <<>> /\ s[Len(s)] = " " THEN TrimRight(SubSeq(s, 1, Len(s) - 1)) ELSE s
Trim(s) == TrimRight(TrimLeft(s))

\* ------------------------------------------------- backend (api/ReadingRecord)
RecordIds == 1 .. NumRecords
\* record 1 has a title and an author, record 2 an empty title, the others
\* neither title nor author
RecordTitle(id) == CASE id = 1 -> "war" [] id = 2 -> "" [] OTHER -> Null
RecordAuthor(id) == CASE id = 1 -> "tolstoy" [] id = 2 -> "tolstoy" [] OTHER -> Null
BookTitle(b) == IF b = "b1" THEN "war" ELSE "emma"
BookAuthor(b) == IF b = "b1" THEN "tolstoy" ELSE "austen"
CoverOf(b) == CASE b = "b1" -> "c1" [] b = "b2" -> "c2" [] OTHER -> Null

ServerRecord(id, lk) ==
    [id |-> id, title |-> RecordTitle(id), author |-> RecordAuthor(id),
     bookId |-> lk[id], coverUrl |-> CoverOf(lk[id])]

\* the records a query selects: all of them for the empty query
QueryHits(qq) == IF qq = <<>> THEN RecordIds ELSE {id \in RecordIds : id % 2 = 1}
HitSeq(qq) == SelectSeq([i \in 1 .. NumRecords |-> i], LAMBDA i : i \in QueryHits(qq))

\* fetchMyRecords({page, size, q}) evaluated on the backend state lk
ServerPage(p, s, qq, lk) ==
    LET ids == HitSeq(qq)
        n == Len(ids)
        lo == p * s + 1
        hi == Min((p + 1) * s, n)
        total == (n + s - 1) \div s
    IN [items |-> [k \in 1 .. Max(0, hi - lo + 1) |-> ServerRecord(ids[lo + k - 1], lk)],
        page |-> p, totalPages |-> total, hasPrev |-> p > 0, hasNext |-> p + 1 < total]

\* fetchCandidates(title, author)
BookSeq == <<"b1", "b2">>
CandidatesFor(t, a) ==
    SelectSeq(BookSeq, LAMBDA b : (t # "" /\ BookTitle(b) = t) \/ (a # "" /\ BookAuthor(b) = a))

\* one record of each kind: with a title, with an empty title and an author,
\* with neither
SeedIds == 1 .. 3

\* the records with a title or an author to search candidates by
SearchableIds ==
    {id \in RecordIds : RecordTitle(id) \notin {"", Null} \/ RecordAuthor(id) \notin {"", Null}}

InitLinks == [id \in RecordIds |-> CASE id = 1 -> "b1" [] id = 3 -> "b2" [] OTHER -> Null]

\* ------------------------------------------------------ ReadingRecordsPage
\* mutant: the mobile page size of the source's comments (8) instead of 6
getInitialPageSize_CommentSize(matches) == IF matches THEN 8 ELSE DesktopSize

getInitialPageSize(matches) == IF matches THEN MobileSize ELSE DesktopSize

Deps == <<page, size, q>>
Params(d) == [page |-> d[1], size |-> d[2], q |-> d[3]]

\* a fetchMyRecords call in flight; later is history: the kinds of the
\* fetchMyRecords calls initiated after this one
Req(kind, d) ==
    [kind |-> kind, page |-> d[1], size |-> d[2], q |-> d[3],
     aborted |-> FALSE, later |-> {}]

Issue(fs, r) ==
    Append([i \in DOMAIN fs |-> [fs[i] EXCEPT !.later = @ \cup {r.kind}]], r)

\* mutant: a list effect without cleanup
Teardown_None(fs) == fs

\* cleanup of the list effect: return () => { aborted = true; }
Teardown(fs) ==
    [i \in DOMAIN fs |-> IF fs[i].kind = "effect" THEN [fs[i] EXCEPT !.aborted = TRUE]
                                                  ELSE fs[i]]

\* history of one turn: the handler or continuation that ran (op), the
\* fetchMyRecords calls it issued, which of page / size / q it changed, whether
\* it raised an alert; for a continuation, the outcome of the awaited call
\* (ok), and for fetchMyRecords the call that resolved; rid is the record id
\* the handler was called for
Event(op) ==
    [op |-> op, issued |-> <<>>, changed |-> {}, alerted |-> FALSE, ok |-> TRUE,
     kind |-> "", aborted |-> FALSE, later |-> {}, resolved |-> <<>>, rid |-> NullId]

\* history of one turn of BookCarousel: issued is the number of
\* fetchMySummaryBooks calls the turn issued; for a continuation, ok is the
\* outcome of the awaited call, live whether the instance that issued it is
\* still mounted, and books the response
ShelfEvent(op) == [op |-> op, issued |-> 0, ok |-> TRUE, live |-> FALSE, books |-> <<>>]

Mounted == phase = "mounted"
\* mutant: the list is rendered whenever loading is over
ListRendered_IgnoreError == Mounted /\ ~loading

\* the list and the pagination widget are rendered only in this branch
ListRendered == Mounted /\ ~loading /\ error = Null
Items == IF data = NoData THEN <<>> ELSE data[1].items

Init ==
    /\ phase = "init"
    /\ viewportNarrow \in BOOLEAN
    /\ data = NoData
    /\ page = 0
    /\ size = getInitialPageSize(viewportNarrow)
    /\ q = <<>>
    /\ queryInput = <<>>
    /\ loading = TRUE
    /\ error = Null
    /\ modalOpen = FALSE
    /\ candidates = <<>>
    /\ candidatesLoading = FALSE
    /\ selectedRecordId = NullId
    /\ modalKeyword = ""
    /\ modalSortKey = "title"
    /\ fetches = <<>>
    /\ linkCalls = <<>>
    /\ unlinkCalls = <<>>
    /\ candCalls = <<>>
    /\ links = InitLinks
    /\ lastFetched = NoData
    /\ unlinkedSince = {}
    /\ lastEvent = Event("init")
    /\ shelfPhase = "init"
    /\ shelfMounts = 0
    /\ list = <<>>
    /\ shelfLoading = TRUE
    /\ shelfError = Null
    /\ shelfCalls = <<>>
    /\ shelfEvent = ShelfEvent("init")

Pending == Len(fetches) + Len(linkCalls) + Len(unlinkCalls) + Len(candCalls)

\* a state setter called after the component unmounted changes nothing
Set(new, old) == IF Mounted THEN new ELSE old

\* mutant: q left out of the dependency array
DepsChanged_NoQ(d) == <<d[1], d[2]>> # <<page, size>>

\* the dependency array of the list effect: [page, size, q]
DepsChanged(d) == d # Deps

\* Pagination onChange
onChange(next) == <<next, size, q>>

\* mutant: onChangePageSize without setPage(0)
onChangePageSize_KeepPage(s) == <<page, s, q>>

\* Pagination onChangePageSize
onChangePageSize(s) == <<0, s, q>>

\* mutant: the mobile page size of the source's comments (8) instead of 6
apply_CommentSize(matches) ==
    LET next == IF matches THEN 8 ELSE DesktopSize
    IN <<0, IF size = next THEN size ELSE next, q>>

\* apply(matches) of the size-sync effect
apply(matches) ==
    LET next == IF matches THEN MobileSize ELSE DesktopSize
    IN <<0, IF size = next THEN size ELSE next, q>>

\* mutant: setQ(queryInput) without trim()
searchCommit_NoTrim == <<0, size, queryInput>>

\* the search input's Enter key and the search button
searchCommit == <<0, size, Trim(queryInput)>>

\* the three guards of the list effect
\* mutant: setData(next) without the staleness guard
EffectAppliesData_Unguarded(r) == TRUE

\* if (!aborted) setData(next)
EffectAppliesData(r) == ~r.aborted

\* if (!aborted) setError(...)
EffectAppliesError(r) == ~r.aborted

\* mutant: finally { setLoading(false) } without the staleness guard
EffectAppliesLoading_Unguarded(r) == TRUE

\* finally { if (!aborted) setLoading(false) }
EffectAppliesLoading(r) == ~r.aborted

\* mutant: the fetched items are appended to the items on display
ApplyFetched_Merge(prev, next) ==
    IF prev = NoData THEN <<next>>
    ELSE <<[next EXCEPT !.items = prev[1].items \o next.items]>>

\* setData(next) in the list effect, setData(updated) after linkRecord
ApplyFetched(prev, next) == <<next>>

\* mutant: the map drops the r.id === recordId test
RemoveMatchPatch_All(prev, recordId) ==
    IF prev = NoData THEN prev
    ELSE <<[prev[1] EXCEPT !.items =
              [i \in DOMAIN prev[1].items |-> [prev[1].items[i] EXCEPT !.bookId = Null]]]>>

\* setData(prev => prev ? {...prev, items: prev.items.map(...)} : prev)
RemoveMatchPatch(prev, recordId) ==
    IF prev = NoData THEN prev
    ELSE <<[prev[1] EXCEPT !.items =
              [i \in DOMAIN prev[1].items |->
                  IF prev[1].items[i].id = recordId
                  THEN [prev[1].items[i] EXCEPT !.bookId = Null]
                  ELSE prev[1].items[i]]]>>

\* mutant: the patch moved to the finally block
RemoveMatchData_Finally(ok, prev, recordId) ==
    IF prev = NoData THEN prev
    ELSE <<[prev[1] EXCEPT !.items =
              [i \in DOMAIN prev[1].items |->
                  IF prev[1].items[i].id = recordId
                  THEN [prev[1].items[i] EXCEPT !.bookId = Null]
                  ELSE prev[1].items[i]]]>>

\* handleRemoveMatch after the await: the patch is in the try block only
RemoveMatchData(ok, prev, recordId) == IF ok THEN RemoveMatchPatch(prev, recordId) ELSE prev

\* mutant: setModalOpen(false) moved to a finally block
SelectCandidateModalOpen_Finally(ok, open) == FALSE

\* handleSelectCandidate: setModalOpen(false) is in the try block only; ok is
\* whether both awaited calls succeeded
SelectCandidateModalOpen(ok, open) == IF ok THEN FALSE ELSE open

\* handleSelectCandidate: fetchMyRecords({page, size, q}) reads the values of
\* the render in which the handler was created (c is the suspended call)
SelectCandidateParams(c) == <<c.page, c.size, c.q>>

ChangedDeps(d) ==
    {n \in {"page", "size", "q"} :
        \/ n = "page" /\ d[1] # page
        \/ n = "size" /\ d[2] # size
        \/ n = "q" /\ d[3] # q}

\* The render after the state updates of one turn, and the list effect when
\* its dependencies changed: cleanup of the previous run, then
\* setLoading(true); setError(null); fetchMyRecords({page, size, q}).
Rerender(op, d) ==
    /\ DepsChanged(d) => Pending < MaxPending
    /\ page' = d[1]
    /\ size' = d[2]
    /\ q' = d[3]
    /\ IF DepsChanged(d)
       THEN /\ fetches' = Issue(Teardown(fetches), Req("effect", d))
            /\ loading' = TRUE
            /\ error' = Null
            /\ lastEvent' = [Event(op) EXCEPT !.issued = <<Params(d)>>,
                                               !.changed = ChangedDeps(d)]
       ELSE /\ UNCHANGED <<fetches, loading, error>>
            /\ lastEvent' = Event(op)

\* First commit: the size-sync effect calls apply(mql.matches) and registers
\* the listener, the list effect issues the first fetch; a size changed by
\* apply re-renders and re-runs the list effect.
Mount ==
    /\ phase = "init"
    /\ phase' = "mounted"
    /\ LET d0 == Deps
           d1 == apply(viewportNarrow)
           first == Issue(<<>>, Req("effect", d0))
       IN /\ page' = d1[1]
          /\ size' = d1[2]
          /\ q' = d1[3]
          /\ fetches' = IF d1 = d0 THEN first ELSE Issue(Teardown(first), Req("effect", d1))
          /\ lastEvent' = [Event("mount") EXCEPT
                             !.issued = IF d1 = d0 THEN <<Params(d0)>>
                                                    ELSE <<Params(d0), Params(d1)>>]
    /\ loading' = TRUE
    /\ error' = Null
    /\ UNCHANGED shelfVars
    /\ UNCHANGED <<viewportNarrow, data, queryInput, modalVars, linkCalls, unlinkCalls,
                   candCalls, links, historyVars>>

\* Unmount: both effects' cleanups run
Unmount ==
    /\ Mounted
    /\ phase' = "unmounted"
    /\ fetches' = Teardown(fetches)
    /\ lastEvent' = Event("unmount")
    /\ UNCHANGED shelfVars
    /\ UNCHANGED <<viewportNarrow, data, pagingVars, queryInput, loading, error, modalVars,
                   linkCalls, unlinkCalls, candCalls, links, historyVars>>

\* the media query's "change" event: handler = (e) => apply(e.matches)
ViewportChange ==
    /\ Mounted
    /\ viewportNarrow' = ~viewportNarrow
    /\ Rerender("viewport", apply(~viewportNarrow))
    /\ UNCHANGED shelfVars
    /\ UNCHANGED <<phase, data, queryInput, modalVars, linkCalls, unlinkCalls, candCalls,
                   links, historyVars>>

\* typing in the search box: setQueryInput(e.target.value)
TypeQuery(s) ==
    /\ Mounted
    /\ queryInput' = s
    /\ lastEvent' = Event("type")
    /\ UNCHANGED shelfVars
    /\ UNCHANGED <<phase, viewportNarrow, data, pagingVars, loading, error, modalVars,
                   fetches, linkCalls, unlinkCalls, candCalls, links, historyVars>>

\* Enter in the search box (via = "enter") or the search button (via = "button")
SearchCommit(via) ==
    /\ Mounted
    /\ Rerender(via, searchCommit)
    /\ UNCHANGED shelfVars
    /\ UNCHANGED <<phase, viewportNarrow, data, queryInput, modalVars, linkCalls,
                   unlinkCalls, candCalls, links, historyVars>>

PageChange(next) ==
    /\ ListRendered
    /\ Rerender("page", onChange(next))
    /\ UNCHANGED shelfVars
    /\ UNCHANGED <<phase, viewportNarrow, data, queryInput, modalVars, linkCalls,
                   unlinkCalls, candCalls, links, historyVars>>

PageSizeChange(s) ==
    /\ ListRendered
    /\ Rerender("pageSize", onChangePageSize(s))
    /\ UNCHANGED shelfVars
    /\ UNCHANGED <<phase, viewportNarrow, data, queryInput, modalVars, linkCalls,
                   unlinkCalls, candCalls, links, historyVars>>

\* fetchMyRecords resolves (ok) or rejects: the continuation of the list
\* effect's async function, or of handleSelectCandidate after its refetch
ResolveFetch(i, ok) ==
    /\ i \in DOMAIN fetches
    /\ LET r == fetches[i]
           next == ServerPage(r.page, r.size, r.q, links)
           applied == ok /\ Mounted /\ (r.kind = "effect" => EffectAppliesData(r))
       IN /\ fetches' = Remove(fetches, i)
          /\ data' = IF applied THEN ApplyFetched(data, next) ELSE data
          /\ lastFetched' = IF applied THEN <<next>> ELSE lastFetched
          /\ unlinkedSince' = IF applied THEN {} ELSE unlinkedSince
          /\ IF r.kind = "effect"
             THEN /\ error' = IF ~ok /\ Mounted /\ EffectAppliesError(r) THEN ErrorMessage
                                                                       ELSE error
                  /\ loading' = IF Mounted /\ EffectAppliesLoading(r) THEN FALSE ELSE loading
                  /\ UNCHANGED modalOpen
             ELSE /\ UNCHANGED <<error, loading>>
                  /\ modalOpen' = Set(SelectCandidateModalOpen(ok, modalOpen), modalOpen)
          /\ lastEvent' = [Event("fetchDone") EXCEPT
                             !.ok = ok, !.kind = r.kind, !.aborted = r.aborted,
                             !.later = r.later, !.alerted = (r.kind = "link" /\ ~ok),
                             !.resolved = <<Params(<<r.page, r.size, r.q>>)>>]
    /\ UNCHANGED shelfVars
    /\ UNCHANGED <<phase, viewportNarrow, pagingVars, queryInput, candidates,
                   candidatesLoading, selectedRecordId, modalKeyword, modalSortKey,
                   linkCalls, unlinkCalls, candCalls, links>>

\* mutant: openSelectModal without setSelectedRecordId
SelectedAfterOpen_Keep(rec) == selectedRecordId

\* setSelectedRecordId(rec.id)
SelectedAfterOpen(rec) == rec.id

\* if (rawTitle) setModalSortKey('title') else setModalSortKey('author')
SeedSortKey(rawTitle) == IF rawTitle # "" THEN "title" ELSE "author"

\* mutant: the keyword is always the title
SeedKeyword_Title(rawTitle, rawAuthor) == rawTitle

\* if (rawTitle) setModalKeyword(rawTitle) else setModalKeyword(rawAuthor)
SeedKeyword(rawTitle, rawAuthor) == IF rawTitle # "" THEN rawTitle ELSE rawAuthor

\* openSelectModal(rec): the record's link button, rendered with the list;
\* rid in a fetchCandidates call is history: the record selected when the
\* call was issued
openSelectModal(rec) ==
    /\ ListRendered
    /\ rec \in Range(Items)
    /\ Pending < MaxPending
    /\ LET rawTitle == IF rec.title = Null THEN "" ELSE rec.title
           rawAuthor == IF rec.author = Null THEN "" ELSE rec.author
       IN /\ selectedRecordId' = SelectedAfterOpen(rec)
          /\ modalSortKey' = SeedSortKey(rawTitle)
          /\ modalKeyword' = SeedKeyword(rawTitle, rawAuthor)
          /\ candCalls' = Append(candCalls, [title |-> rawTitle, author |-> rawAuthor,
                                             rid |-> rec.id])
          /\ lastEvent' = [Event("openSelectModal") EXCEPT !.rid = rec.id]
    /\ candidatesLoading' = TRUE
    /\ modalOpen' = TRUE
    /\ UNCHANGED shelfVars
    /\ UNCHANGED <<phase, viewportNarrow, data, pagingVars, queryInput, loading, error,
                   candidates, fetches, linkCalls, unlinkCalls, links, historyVars>>

\* handleModalSearch: the modal's onSubmitSearch
handleModalSearch ==
    /\ Mounted
    /\ modalOpen
    /\ Pending < MaxPending
    /\ candidatesLoading' = TRUE
    /\ candCalls' = Append(candCalls,
                           [title |-> IF modalSortKey = "title" THEN modalKeyword ELSE "",
                            author |-> IF modalSortKey = "author" THEN modalKeyword ELSE "",
                            rid |-> selectedRecordId])
    /\ lastEvent' = Event("handleModalSearch")
    /\ UNCHANGED shelfVars
    /\ UNCHANGED <<phase, viewportNarrow, data, pagingVars, queryInput, loading, error,
                   modalOpen, candidates, selectedRecordId, modalKeyword, modalSortKey,
                   fetches, linkCalls, unlinkCalls, links, historyVars>>

\* mutant: the catch block leaves the candidates as they are
CandidatesAfter_KeepOnFailure(ok, found, prev) == IF ok THEN found ELSE prev

\* try { setCandidates(list) } catch { setCandidates([]) }
CandidatesAfter(ok, found, prev) == IF ok THEN found ELSE <<>>

\* mutant: a staleness guard like the list effect's, only the call issued
\* last is applied (i is the call's position among the n in flight)
CandidatesApplies_LatestOnly(i, n) == i = n

\* setCandidates is called without a staleness guard
CandidatesApplies(i, n) == TRUE

\* fetchCandidates resolves or rejects (openSelectModal, handleModalSearch)
ResolveCandidates(i, ok) ==
    /\ i \in DOMAIN candCalls
    /\ candCalls' = Remove(candCalls, i)
    /\ LET c == candCalls[i]
           next == IF CandidatesApplies(i, Len(candCalls))
                   THEN Set(CandidatesAfter(ok, CandidatesFor(c.title, c.author), candidates),
                            candidates)
                   ELSE candidates
       IN /\ candidates' = next
          /\ lastEvent' = [Event("candidatesDone") EXCEPT
                             !.ok = ok, !.rid = c.rid,
                             !.resolved = <<[title |-> c.title, author |-> c.author]>>,
                             !.changed = IF next # candidates THEN {"candidates"} ELSE {}]
    /\ candidatesLoading' = Set(FALSE, candidatesLoading)
    /\ UNCHANGED shelfVars
    /\ UNCHANGED <<phase, viewportNarrow, data, pagingVars, queryInput, loading, error,
                   modalOpen, selectedRecordId, modalKeyword, modalSortKey,
                   fetches, linkCalls, unlinkCalls, links, historyVars>>

\* the modal's onKeywordChange, onSortKeyChange and onClose
ModalKeywordChange(k) ==
    /\ Mounted
    /\ modalOpen
    /\ modalKeyword' = k
    /\ lastEvent' = Event("modalKeyword")
    /\ UNCHANGED shelfVars
    /\ UNCHANGED <<phase, viewportNarrow, data, pagingVars, queryInput, loading, error,
                   modalOpen, candidates, candidatesLoading, selectedRecordId, modalSortKey,
                   fetches, linkCalls, unlinkCalls, candCalls, links, historyVars>>

ModalSortKeyChange(k) ==
    /\ Mounted
    /\ modalOpen
    /\ modalSortKey' = k
    /\ lastEvent' = Event("modalSortKey")
    /\ UNCHANGED shelfVars
    /\ UNCHANGED <<phase, viewportNarrow, data, pagingVars, queryInput, loading, error,
                   modalOpen, candidates, candidatesLoading, selectedRecordId, modalKeyword,
                   fetches, linkCalls, unlinkCalls, candCalls, links, historyVars>>

ModalClose ==
    /\ Mounted
    /\ modalOpen
    /\ modalOpen' = FALSE
    /\ lastEvent' = Event("modalClose")
    /\ UNCHANGED shelfVars
    /\ UNCHANGED <<phase, viewportNarrow, data, pagingVars, queryInput, loading, error,
                   candidates, candidatesLoading, selectedRecordId, modalKeyword,
                   modalSortKey, fetches, linkCalls, unlinkCalls, candCalls, links,
                   historyVars>>

\* handleSelectCandidate(book) up to its first await: the modal's onSelect
handleSelectCandidate(book) ==
    /\ Mounted
    /\ modalOpen
    /\ book \in Range(candidates)
    /\ IF selectedRecordId = NullId
       THEN /\ UNCHANGED linkCalls
            /\ lastEvent' = Event("handleSelectCandidate")
       ELSE /\ Pending < MaxPending
            /\ linkCalls' = Append(linkCalls,
                                   [recordId |-> selectedRecordId, book |-> book,
                                    page |-> page, size |-> size, q |-> q])
            /\ lastEvent' = [Event("handleSelectCandidate") EXCEPT !.rid = selectedRecordId]
    /\ UNCHANGED shelfVars
    /\ UNCHANGED <<phase, viewportNarrow, data, pagingVars, queryInput, loading, error,
                   modalVars, fetches, unlinkCalls, candCalls, links, historyVars>>

\* linkRecord resolves: handleSelectCandidate goes on to its refetch;
\* linkRecord rejects: the catch block alerts
ResolveLink(i, ok) ==
    /\ i \in DOMAIN linkCalls
    /\ LET c == linkCalls[i]
           d == SelectCandidateParams(c)
       IN /\ linkCalls' = Remove(linkCalls, i)
          /\ links' = IF ok THEN [links EXCEPT ![c.recordId] = c.book] ELSE links
          /\ fetches' = IF ok THEN Issue(fetches, Req("link", d)) ELSE fetches
          /\ lastEvent' = [Event("linkDone") EXCEPT
                             !.ok = ok, !.rid = c.recordId, !.alerted = ~ok,
                             !.issued = IF ok THEN <<Params(d)>> ELSE <<>>]
    /\ modalOpen' = IF ok THEN modalOpen
                         ELSE Set(SelectCandidateModalOpen(FALSE, modalOpen), modalOpen)
    /\ UNCHANGED shelfVars
    /\ UNCHANGED <<phase, viewportNarrow, data, pagingVars, queryInput, loading, error,
                   candidates, candidatesLoading, selectedRecordId, modalKeyword,
                   modalSortKey, unlinkCalls, candCalls, historyVars>>

\* handleRemoveMatch(recordId) up to its await: the unlink button, rendered
\* with the list for a record whose bookId is set
handleRemoveMatch(recordId) ==
    /\ ListRendered
    /\ \E i \in DOMAIN Items : Items[i].id = recordId /\ Items[i].bookId # Null
    /\ Pending < MaxPending
    /\ candidatesLoading' = TRUE
    /\ unlinkCalls' = Append(unlinkCalls, recordId)
    /\ lastEvent' = [Event("handleRemoveMatch") EXCEPT !.rid = recordId]
    /\ UNCHANGED shelfVars
    /\ UNCHANGED <<phase, viewportNarrow, data, pagingVars, queryInput, loading, error,
                   modalOpen, candidates, selectedRecordId, modalKeyword, modalSortKey,
                   fetches, linkCalls, candCalls, links, historyVars>>

\* fetchRemoveMatch resolves or rejects
ResolveRemoveMatch(i, ok) ==
    /\ i \in DOMAIN unlinkCalls
    /\ LET recordId == unlinkCalls[i]
       IN /\ unlinkCalls' = Remove(unlinkCalls, i)
          /\ links' = IF ok THEN [links EXCEPT ![recordId] = Null] ELSE links
          /\ data' = Set(RemoveMatchData(ok, data, recordId), data)
          /\ unlinkedSince' = IF ok /\ Mounted THEN unlinkedSince \cup {recordId}
                                               ELSE unlinkedSince
          /\ lastEvent' = [Event("removeMatchDone") EXCEPT !.ok = ok, !.rid = recordId]
    /\ candidatesLoading' = Set(FALSE, candidatesLoading)
    /\ UNCHANGED shelfVars
    /\ UNCHANGED <<phase, viewportNarrow, pagingVars, queryInput, loading, error,
                   modalOpen, candidates, selectedRecordId, modalKeyword, modalSortKey,
                   fetches, linkCalls, candCalls, lastFetched>>

\* ------------------------------------------------------------ BookCarousel
\* the responses fetchMySummaryBooks can give: lists of at most MaxShelf books
ShelfLists == UNION {[1 .. n -> ShelfBooks] : n \in 0 .. MaxShelf}

\* mutant: setLoading(false) in the try block only
ShelfLoadingDone_TryOnly(ok) == ~ok

\* finally { setLoading(false) }
ShelfLoadingDone(ok) == FALSE

\* BookCarousel is mounted: a new instance with the initial state, whose
\* mount effect calls fetchMySummaryBooks()
ShelfMount ==
    /\ shelfPhase \in {"init", "unmounted"}
    /\ shelfMounts < MaxMounts
    /\ shelfPhase' = "mounted"
    /\ shelfMounts' = shelfMounts + 1
    /\ list' = <<>>
    /\ shelfLoading' = TRUE
    /\ shelfError' = Null
    /\ shelfCalls' = Append(shelfCalls, shelfMounts + 1)
    /\ shelfEvent' = [ShelfEvent("mount") EXCEPT !.issued = 1]
    /\ UNCHANGED recordsVars

ShelfUnmount ==
    /\ shelfPhase = "mounted"
    /\ shelfPhase' = "unmounted"
    /\ shelfEvent' = ShelfEvent("unmount")
    /\ UNCHANGED <<shelfMounts, list, shelfLoading, shelfError, shelfCalls>>
    /\ UNCHANGED recordsVars

\* fetchMySummaryBooks resolves with books (ok) or rejects: the continuation
\* of the mount effect's async function; the setters of an instance that was
\* unmounted change nothing
ResolveShelf(i, ok, books) ==
    /\ i \in DOMAIN shelfCalls
    /\ LET live == shelfPhase = "mounted" /\ shelfCalls[i] = shelfMounts
       IN /\ list' = IF live /\ ok THEN books ELSE list
          /\ shelfError' = IF live /\ ~ok THEN ErrorMessage ELSE shelfError
          /\ shelfLoading' = IF live THEN ShelfLoadingDone(ok) ELSE shelfLoading
          /\ shelfEvent' = [ShelfEvent("shelfDone") EXCEPT
                              !.ok = ok, !.live = live, !.books = IF ok THEN books ELSE <<>>]
    /\ shelfCalls' = Remove(shelfCalls, i)
    /\ UNCHANGED <<shelfPhase, shelfMounts>>
    /\ UNCHANGED recordsVars

\* every handler and continuation of the two views
Next ==
    \/ Mount
    \/ Unmount
    \/ ViewportChange
    \/ \E s \in Inputs : TypeQuery(s)
    \/ \E via \in {"enter", "button"} : SearchCommit(via)
    \/ \E next \in 0 .. MaxPage : PageChange(next)
    \/ \E s \in PageSizeOptions : PageSizeChange(s)
    \/ \E i \in 1 .. MaxPending, ok \in BOOLEAN : ResolveFetch(i, ok)
    \/ \E id \in RecordIds : openSelectModal(ServerRecord(id, links))
    \/ handleModalSearch
    \/ \E i \in 1 .. MaxPending, ok \in BOOLEAN : ResolveCandidates(i, ok)
    \/ \E k \in ModalKeywords : ModalKeywordChange(k)
    \/ \E k \in SortKeys : ModalSortKeyChange(k)
    \/ ModalClose
    \/ \E b \in Books : handleSelectCandidate(b)
    \/ \E i \in 1 .. MaxPending, ok \in BOOLEAN : ResolveLink(i, ok)
    \/ \E id \in RecordIds : handleRemoveMatch(id)
    \/ \E i \in 1 .. MaxPending, ok \in BOOLEAN : ResolveRemoveMatch(i, ok)
    \/ ShelfMount
    \/ ShelfUnmount
    \/ \E i \in 1 .. MaxMounts, ok \in BOOLEAN, books \in ShelfLists : ResolveShelf(i, ok, books)

Spec == Init /\ [][Next]_vars

\* The paging / search state machine alone: the user never opens the modal
\* and never unlinks
NextPaging ==
    \/ Mount
    \/ Unmount
    \/ ViewportChange
    \/ \E s \in Inputs : TypeQuery(s)
    \/ \E via \in {"enter", "button"} : SearchCommit(via)
    \/ \E next \in 0 .. MaxPage : PageChange(next)
    \/ \E s \in PageSizeOptions : PageSizeChange(s)
    \/ \E i \in 1 .. MaxPending, ok \in BOOLEAN : ResolveFetch(i, ok)

SpecPaging == Init /\ [][NextPaging]_vars

\* Unlinking over a list that changes page and size: the search box is left
\* alone and the modal is never opened
NextUnlink ==
    \/ Mount
    \/ Unmount
    \/ ViewportChange
    \/ \E s \in PageSizeOptions : PageSizeChange(s)
    \/ \E next \in 0 .. MaxPage : PageChange(next)
    \/ \E i \in 1 .. MaxPending, ok \in BOOLEAN : ResolveFetch(i, ok)
    \/ \E id \in RecordIds : handleRemoveMatch(id)
    \/ \E i \in 1 .. MaxPending, ok \in BOOLEAN : ResolveRemoveMatch(i, ok)

SpecUnlink == Init /\ [][NextUnlink]_vars

\* Linking through the selection modal, opened for the records that have a
\* title or an author, while the viewport changes the page size under it
NextLink ==
    \/ Mount
    \/ Unmount
    \/ ViewportChange
    \/ \E i \in 1 .. MaxPending, ok \in BOOLEAN : ResolveFetch(i, ok)
    \/ \E id \in SearchableIds : openSelectModal(ServerRecord(id, links))
    \/ \E i \in 1 .. MaxPending, ok \in BOOLEAN : ResolveCandidates(i, ok)
    \/ ModalClose
    \/ \E b \in Books : handleSelectCandidate(b)
    \/ \E i \in 1 .. MaxPending, ok \in BOOLEAN : ResolveLink(i, ok)

SpecLink == Init /\ [][NextLink]_vars

\* The selection modal and its candidate searches over the first page of the
\* list: the viewport stays as it is, no candidate is selected and nothing
\* is unlinked
NextModal ==
    \/ Mount
    \/ Unmount
    \/ \E i \in 1 .. MaxPending, ok \in BOOLEAN : ResolveFetch(i, ok)
    \/ \E id \in SeedIds : openSelectModal(ServerRecord(id, links))
    \/ handleModalSearch
    \/ \E i \in 1 .. MaxPending, ok \in BOOLEAN : ResolveCandidates(i, ok)
    \/ \E k \in ModalKeywords : ModalKeywordChange(k)
    \/ \E k \in SortKeys : ModalSortKeyChange(k)
    \/ ModalClose

SpecModal == Init /\ [][NextModal]_vars

\* The users of the candidates-loading flag: the candidate searches of the
\* modal, with its seeded keyword, and unlinking
NextCandidatesLoading ==
    \/ Mount
    \/ Unmount
    \/ \E i \in 1 .. MaxPending, ok \in BOOLEAN : ResolveFetch(i, ok)
    \/ \E id \in SeedIds : openSelectModal(ServerRecord(id, links))
    \/ handleModalSearch
    \/ \E i \in 1 .. MaxPending, ok \in BOOLEAN : ResolveCandidates(i, ok)
    \/ ModalClose
    \/ \E id \in RecordIds : handleRemoveMatch(id)
    \/ \E i \in 1 .. MaxPending, ok \in BOOLEAN : ResolveRemoveMatch(i, ok)

SpecCandidatesLoading == Init /\ [][NextCandidatesLoading]_vars

\* BookCarousel alone, mounted and unmounted up to MaxMounts times
NextShelf ==
    \/ ShelfMount
    \/ ShelfUnmount
    \/ \E i \in 1 .. MaxMounts, ok \in BOOLEAN, books \in ShelfLists : ResolveShelf(i, ok, books)

SpecShelf == Init /\ [][NextShelf]_vars

\* ------------------------------------------------------------------ claims
PagingOps == {"viewport", "page", "pageSize", "enter", "button"}
ViewportTarget(narrow) == IF narrow THEN MobileSize ELSE DesktopSize

\* C1 as stated: a response to a fetchMyRecords call, whether issued by the
\* list effect or by the post-link refetch, never changes the snapshot once a
\* later fetchMyRecords call has been initiated.
C1_OnlyLatestCallApplied ==
    [][(lastEvent'.op = "fetchDone" /\ lastEvent'.later # {}) => data' = data]_vars

\* C1 amended: a response to a list-effect fetchMyRecords call never changes
\* the snapshot once a later list-effect call has been initiated (the
\* post-link refetch is outside this guarantee).
C1_OnlyLatestEffectApplied ==
    [][(lastEvent'.op = "fetchDone" /\ lastEvent'.kind = "effect"
          /\ "effect" \in lastEvent'.later) => data' = data]_vars

\* a superseded list-effect call succeeded with a page that differs from the
\* snapshot on display, and was discarded
C1_Witness ==
    /\ lastEvent.op = "fetchDone"
    /\ lastEvent.kind = "effect"
    /\ "effect" \in lastEvent.later
    /\ lastEvent.ok
    /\ Mounted
    /\ data # NoData
    /\ LET r == lastEvent.resolved[1]
       IN data[1] # ServerPage(r.page, r.size, r.q, links)

\* C2: the completion (success or failure) of a list-effect fetch whose effect
\* was torn down changes none of data, error and loading.
C2_TornDownFetchIgnored ==
    [][(lastEvent'.op = "fetchDone" /\ lastEvent'.kind = "effect" /\ lastEvent'.aborted)
          => UNCHANGED <<data, error, loading>>]_vars

\* a torn-down fetch failed while the newer fetch was still loading, and no
\* error was set
C2_Witness ==
    /\ lastEvent.op = "fetchDone"
    /\ lastEvent.kind = "effect"
    /\ lastEvent.aborted
    /\ ~lastEvent.ok
    /\ Mounted
    /\ loading
    /\ error = Null

\* C4: a viewport, page, page-size or search-commit event issues exactly one
\* fetchMyRecords call, carrying the new values, when it changes at least one
\* of page, size, q, and none when it changes none; typing issues none; the
\* mount issues exactly one.
C4_OneFetchPerChange ==
    [][/\ lastEvent'.op \in PagingOps \cup {"type"} =>
            IF <<page', size', q'>> # <<page, size, q>>
            THEN /\ lastEvent'.issued = <<[page |-> page', size |-> size', q |-> q']>>
                 /\ Len(fetches') = Len(fetches) + 1
                 /\ LET r == fetches'[Len(fetches')]
                    IN /\ r.kind = "effect"
                       /\ ~r.aborted
                       /\ <<r.page, r.size, r.q>> = <<page', size', q'>>
            ELSE /\ lastEvent'.issued = <<>>
                 /\ fetches' = fetches
       /\ lastEvent'.op = "mount" =>
            /\ lastEvent'.issued = <<[page |-> page', size |-> size', q |-> q']>>
            /\ Len(fetches') = 1
            /\ <<fetches'[1].page, fetches'[1].size, fetches'[1].q>> = <<page', size', q'>>
      ]_vars

\* a search commit from a non-zero page changed page and q at once and
\* issued one fetch
C4_Witness ==
    /\ lastEvent.op \in {"enter", "button"}
    /\ lastEvent.changed = {"page", "q"}
    /\ Len(lastEvent.issued) = 1
    /\ lastEvent.issued[1] = [page |-> 0, size |-> size, q |-> <<"a">>]

\* C9: after a page-size change from the pagination widget, a viewport change
\* or a search commit, page is 0.
C9_SizeOrSearchResetsPage ==
    [][lastEvent'.op \in {"pageSize", "viewport", "enter", "button"} => page' = 0]_vars

\* the pagination widget changed the page size on a non-zero page, which
\* went back to 0
C9_Witness ==
    /\ lastEvent.op = "pageSize"
    /\ lastEvent.changed = {"page", "size"}
    /\ page = 0

C3_SnapshotIsLastFetched == data = lastFetched

\* the last applied PageResult with bookId set to null on the records that
\* handleRemoveMatch unlinked since
PatchedLastFetched ==
    IF lastFetched = NoData THEN NoData
    ELSE <<[lastFetched[1] EXCEPT !.items =
              [i \in DOMAIN lastFetched[1].items |->
                  IF lastFetched[1].items[i].id \in unlinkedSince
                  THEN [lastFetched[1].items[i] EXCEPT !.bookId = Null]
                  ELSE lastFetched[1].items[i]]]>>

\* C3 amended: the snapshot on display is the PageResult of the last fetch
\* that was applied, unmerged, except that the records unlinked by
\* handleRemoveMatch since then have bookId null.
C3_SnapshotIsLastFetchedPatched == data = PatchedLastFetched

\* an unlink patched the snapshot: it has the items of the last applied
\* PageResult, and differs from it
C3_Witness ==
    /\ data # NoData
    /\ data # lastFetched
    /\ unlinkedSince # {}
    /\ Len(data[1].items) = Len(lastFetched[1].items)
    /\ lastEvent.op = "removeMatchDone"

\* C5 as stated: when linkRecord succeeds a fetchMyRecords call for the
\* current page, size and q is issued, and when that refetch completes the
\* modal is closed and the snapshot is the refetched server state.
C5_LinkRefetchesCurrentAndCloses ==
    [][/\ (lastEvent'.op = "linkDone" /\ lastEvent'.ok) =>
            lastEvent'.issued = <<[page |-> page, size |-> size, q |-> q]>>
       /\ (lastEvent'.op = "fetchDone" /\ lastEvent'.kind = "link" /\ Mounted) =>
            /\ ~modalOpen'
            /\ data' = <<ServerPage(page, size, q, links)>>]_vars

\* C6: when linkRecord or the refetch after it fails, an alert is raised and
\* the snapshot, page, size, q, the candidates and the modal's open flag stay
\* as they are.
C6_SelectFailureLeavesState ==
    [][(\/ lastEvent'.op = "linkDone" /\ ~lastEvent'.ok
        \/ lastEvent'.op = "fetchDone" /\ lastEvent'.kind = "link" /\ ~lastEvent'.ok)
          => /\ lastEvent'.alerted
             /\ UNCHANGED <<data, page, size, q, candidates, modalOpen>>]_vars

\* the refetch after a successful linkRecord failed: alert raised, modal
\* still open over the snapshot
C6_Witness ==
    /\ lastEvent.op = "fetchDone"
    /\ lastEvent.kind = "link"
    /\ ~lastEvent.ok
    /\ lastEvent.alerted
    /\ Mounted
    /\ modalOpen
    /\ data # NoData

\* C7: a successful fetchRemoveMatch sets bookId to null on exactly the items
\* with that record id in the snapshot present at that moment, keeps every
\* other item and field of the snapshot, keeps page, size and q, and issues
\* no fetchMyRecords call.
C7_UnlinkPatchesOneRecord ==
    [][(lastEvent'.op = "removeMatchDone" /\ lastEvent'.ok /\ Mounted) =>
          /\ UNCHANGED <<page, size, q, fetches>>
          /\ lastEvent'.issued = <<>>
          /\ IF data = NoData THEN data' = NoData
             ELSE /\ Len(data') = 1
                  /\ DOMAIN data'[1].items = DOMAIN data[1].items
                  /\ \A i \in DOMAIN data[1].items :
                        data'[1].items[i] =
                           IF data[1].items[i].id = lastEvent'.rid
                           THEN [data[1].items[i] EXCEPT !.bookId = Null]
                           ELSE data[1].items[i]
                  /\ data'[1].page = data[1].page
                  /\ data'[1].totalPages = data[1].totalPages
                  /\ data'[1].hasPrev = data[1].hasPrev
                  /\ data'[1].hasNext = data[1].hasNext]_vars

\* an unlink succeeded: its record shows bookId null next to another record
\* that is still linked
C7_Witness ==
    /\ lastEvent.op = "removeMatchDone"
    /\ lastEvent.ok
    /\ Mounted
    /\ \E i, j \in DOMAIN Items :
          /\ Items[i].id = lastEvent.rid
          /\ Items[i].bookId = Null
          /\ Items[j].id # lastEvent.rid
          /\ Items[j].bookId # Null

\* C8: a failed fetchRemoveMatch leaves the snapshot, the error, page, size
\* and q as they are, raises no alert, and issues neither a fetchMyRecords
\* call nor another fetchRemoveMatch call.
C8_UnlinkFailureLeavesState ==
    [][(lastEvent'.op = "removeMatchDone" /\ ~lastEvent'.ok) =>
          /\ UNCHANGED <<data, error, loading, page, size, q, fetches>>
          /\ ~lastEvent'.alerted
          /\ lastEvent'.issued = <<>>
          /\ Len(unlinkCalls') = Len(unlinkCalls) - 1]_vars

\* an unlink failed: its record is still shown linked, no error is shown
C8_Witness ==
    /\ lastEvent.op = "removeMatchDone"
    /\ ~lastEvent.ok
    /\ Mounted
    /\ error = Null
    /\ \E i \in DOMAIN Items : Items[i].id = lastEvent.rid /\ Items[i].bookId # Null

Spaces(n) == [k \in 1 .. n |-> " "]

\* C12: a search commit (Enter or button) sets q to the search input without
\* its leading and trailing spaces and page to 0; typing changes the input
\* text only: q, page and size stay and no fetchMyRecords call is issued.
C12_SearchCommitTrims ==
    [][/\ lastEvent'.op \in {"enter", "button"} =>
            /\ page' = 0
            /\ queryInput' = queryInput
            /\ q' # <<>> => (Head(q') # " " /\ q'[Len(q')] # " ")
            /\ \E i, j \in 0 .. Len(queryInput) :
                  queryInput = Spaces(i) \o q' \o Spaces(j)
       /\ lastEvent'.op = "type" =>
            /\ UNCHANGED <<q, page, size, fetches, loading, error, data>>
            /\ lastEvent'.issued = <<>>]_vars

\* Enter committed an input with spaces around it from a non-zero page: q is
\* the text without them and page is 0
C12_Witness ==
    /\ lastEvent.op = "enter"
    /\ queryInput = <<" ", "a", " ">>
    /\ q = <<"a">>
    /\ page = 0
    /\ lastEvent.changed = {"page", "q"}

\* C13: when a live list fetch fails, the inline error is set, the list is
\* not rendered and the failing turn issues no fetch; while the error is
\* shown a fetch is issued only by a viewport, pagination or search-commit
\* event that changes page, size or q, and the error goes away only in such
\* an event, whose new fetch clears it.
C13_ListErrorUntilChange ==
    [][/\ (/\ lastEvent'.op = "fetchDone" /\ lastEvent'.kind = "effect"
            /\ ~lastEvent'.aborted /\ ~lastEvent'.ok /\ Mounted) =>
            /\ error' # Null
            /\ ~loading'
            /\ ~ListRendered'
            /\ lastEvent'.issued = <<>>
            /\ Len(fetches') = Len(fetches) - 1
       /\ (error # Null /\ (error' # error \/ Len(fetches') > Len(fetches))) =>
            /\ lastEvent'.op \in PagingOps
            /\ <<page', size', q'>> # <<page, size, q>>
            /\ Len(lastEvent'.issued) = 1
            /\ error' = Null
       /\ (lastEvent'.op \in PagingOps /\ lastEvent'.issued # <<>>) => error' = Null]_vars

\* the live fetch of a list that was on display failed: the error is shown
\* in place of the list and no fetch is in flight
C13_Witness ==
    /\ lastEvent.op = "fetchDone"
    /\ lastEvent.kind = "effect"
    /\ ~lastEvent.aborted
    /\ ~lastEvent.ok
    /\ Mounted
    /\ error = ErrorMessage
    /\ ~ListRendered
    /\ data # NoData
    /\ fetches = <<>>

\* C14: when a fetchCandidates call fails, the candidates become empty, the
\* modal's open flag stays as it is, the candidates-loading flag is cleared,
\* and neither the inline error nor an alert is raised.
C14_CandidateFailureEmptiesList ==
    [][(lastEvent'.op = "candidatesDone" /\ ~lastEvent'.ok /\ Mounted) =>
          /\ candidates' = <<>>
          /\ modalOpen' = modalOpen
          /\ ~candidatesLoading'
          /\ ~lastEvent'.alerted
          /\ UNCHANGED <<error, loading, data, selectedRecordId>>]_vars

\* a candidate search failed in the open modal, which had candidates on
\* display: they are gone and the modal is still open
C14_Witness ==
    /\ lastEvent.op = "candidatesDone"
    /\ ~lastEvent.ok
    /\ lastEvent.changed = {"candidates"}
    /\ Mounted
    /\ modalOpen
    /\ candidates = <<>>
    /\ ~candidatesLoading
    /\ error = Null

\* C15: every fetchCandidates call that resolves puts its own result (the
\* empty list when it failed) in the candidates, whatever calls were issued
\* after it and whatever record is selected: the call that resolves last
\* decides the list.
C15_LastResolvedCandidatesWin ==
    [][(lastEvent'.op = "candidatesDone" /\ Mounted) =>
          candidates' =
             IF lastEvent'.ok
             THEN CandidatesFor(lastEvent'.resolved[1].title, lastEvent'.resolved[1].author)
             ELSE <<>>]_vars

\* the modal was opened for record 1 and then for record 3; the call for
\* record 3 resolved first and the call for record 1 last: the modal shows
\* record 3 with the candidates of record 1
C15_Witness ==
    /\ lastEvent.op = "candidatesDone"
    /\ lastEvent.ok
    /\ lastEvent.rid = 1
    /\ selectedRecordId = 3
    /\ Mounted
    /\ modalOpen
    /\ candCalls = <<>>
    /\ candidates = <<"b1">>
    /\ candidates # CandidatesFor("", "")

\* C16: openSelectModal(record) with a non-empty title sets the sort key to
\* 'title' and the keyword to the title; with an empty or missing title it
\* sets the sort key to 'author' and the keyword to the author, or to the
\* empty string when the author is missing too.
C16_OpenSeedsSearch ==
    [][lastEvent'.op = "openSelectModal" =>
          LET t == RecordTitle(lastEvent'.rid)
              a == RecordAuthor(lastEvent'.rid)
          IN IF t \notin {"", Null}
             THEN modalSortKey' = "title" /\ modalKeyword' = t
             ELSE /\ modalSortKey' = "author"
                  /\ modalKeyword' = IF a = Null THEN "" ELSE a]_vars

\* the modal was opened for record 2, whose title is empty: the search is
\* seeded with its author
C16_Witness ==
    /\ lastEvent.op = "openSelectModal"
    /\ lastEvent.rid = 2
    /\ RecordTitle(2) = ""
    /\ modalSortKey = "author"
    /\ modalKeyword = "tolstoy"
    /\ modalOpen

\* C17: a mount of BookCarousel starts in loading with an empty list and no
\* error and issues exactly one fetchMySummaryBooks call; no other turn
\* issues one (none after a failure either); when the call of the mounted
\* instance resolves, loading is false and either the list is the response
\* and there is no error, or the error is set and the list is empty.
C17_OneShelfFetchPerMount ==
    [][/\ shelfEvent'.op = "mount" =>
            /\ shelfEvent'.issued = 1
            /\ Len(shelfCalls') = Len(shelfCalls) + 1
            /\ shelfLoading'
            /\ list' = <<>>
            /\ shelfError' = Null
       /\ shelfEvent'.op # "mount" =>
            /\ shelfEvent'.issued = 0
            /\ Len(shelfCalls') <= Len(shelfCalls)
       /\ (shelfEvent'.op = "shelfDone" /\ shelfEvent'.live) =>
            /\ shelfLoading
            /\ ~shelfLoading'
            /\ IF shelfEvent'.ok
               THEN list' = shelfEvent'.books /\ shelfError' = Null
               ELSE list' = <<>> /\ shelfError' # Null]_vars

\* the fetch of a second mount failed: the error is shown over an empty
\* list, loading is over and no call is in flight
C17_Witness ==
    /\ shelfEvent.op = "shelfDone"
    /\ shelfEvent.live
    /\ ~shelfEvent.ok
    /\ shelfMounts = 2
    /\ shelfPhase = "mounted"
    /\ shelfError = ErrorMessage
    /\ list = <<>>
    /\ ~shelfLoading
    /\ shelfCalls = <<>>

\* C18: while the page is mounted, loading is true exactly when the
\* fetchMyRecords call of the current (not torn-down) list effect is in
\* flight; so the completion of a stale call leaves loading true while the
\* current one is in flight.
C18_LoadingIffLiveFetch ==
    Mounted =>
        (loading <=> \E i \in DOMAIN fetches :
                        fetches[i].kind = "effect" /\ ~fetches[i].aborted)

\* a stale fetch has just succeeded while the current one is in flight:
\* loading is still true
C18_Witness ==
    /\ lastEvent.op = "fetchDone"
    /\ lastEvent.kind = "effect"
    /\ lastEvent.aborted
    /\ lastEvent.ok
    /\ Mounted
    /\ loading
    /\ \E i \in DOMAIN fetches : fetches[i].kind = "effect" /\ ~fetches[i].aborted

\* C19 as stated: while the page is mounted, the candidates-loading flag is
\* true whenever a fetchCandidates call is in flight.
C19_CandidatesLoadingWhilePending ==
    (Mounted /\ candCalls # <<>>) => candidatesLoading

\* C20: the modal is opened only by openSelectModal, which selects the
\* record it was called with, and nothing else changes the selection: an
\* open modal has a selected record, that of the most recent openSelectModal
\* call. handleSelectCandidate issues one linkRecord call for the selected
\* record, and no linkRecord or fetchMyRecords call when none is selected.
C20_ModalTargetsSelectedRecord ==
    [][/\ modalOpen' => selectedRecordId' # NullId
       /\ lastEvent'.op = "openSelectModal" =>
            (modalOpen' /\ selectedRecordId' = lastEvent'.rid)
       /\ (selectedRecordId' # selectedRecordId \/ (modalOpen' /\ ~modalOpen)) =>
            lastEvent'.op = "openSelectModal"
       /\ lastEvent'.op = "handleSelectCandidate" =>
            /\ fetches' = fetches
            /\ IF selectedRecordId = NullId
               THEN linkCalls' = linkCalls
               ELSE /\ Len(linkCalls') = Len(linkCalls) + 1
                    /\ SubSeq(linkCalls', 1, Len(linkCalls)) = linkCalls
                    /\ linkCalls'[Len(linkCalls')].recordId = selectedRecordId]_vars

\* the modal, used before to link record 2, was opened again for record 1
\* and a candidate was selected: the linkRecord call is for record 1
C20_Witness ==
    /\ lastEvent.op = "handleSelectCandidate"
    /\ links[2] # Null
    /\ modalOpen
    /\ selectedRecordId = 1
    /\ linkCalls # <<>>
    /\ linkCalls[Len(linkCalls)].recordId = 1

====
